---- MODULE Spec2Model ----
(***************************************************************************)
(* A model of the OAuth2 authorization-code flow of playlist-manager:     *)
(* TokenManager (config.py), CallbackHandler / SpotifyOAuthServer /       *)
(* SpotifyAuthenticator (oauth_server.py).                                *)
(*                                                                        *)
(* Two threads share the HTTPServer object: the orchestrator, which runs  *)
(* SpotifyAuthenticator.authenticate(), and the listener thread started   *)
(* by start_server(), which runs CallbackHandler.do_GET once per request. *)
(* HTTPServer handles one request at a time, so do_GET calls never        *)
(* interleave with each other; every write of do_GET and every read of    *)
(* wait_for_callback is one step, so they interleave freely.              *)
(*                                                                        *)
(* SpotifyService (services/spotify_service.py) is modelled beside it:    *)
(* its paginated fetches run one request per step against a server whose  *)
(* library is fixed for the run.  Spec explores the authenticator as     *)
(* SpotifyService.authenticate() drives it, LiveSpec a first run under    *)
(* fair scheduling, ServiceSpec the fetches of an authenticated service,  *)
(* TokenSpec the TokenManager when its methods are called one by one,     *)
(* SessionSpec a session in which authentication and fetches alternate,   *)
(* ExpirySpec the fetches while the clock runs, UnwritableSpec the        *)
(* authenticator when the token file cannot be written, and ModelsSpec    *)
(* the derived properties of Playlist (models.py).                        *)
(***************************************************************************)
EXTENDS Integers, Sequences, FiniteSets, TLC

\* ------------------------------------------------------------------ bounds
\* The clock advances in steps of TickSecs seconds, MaxTicks times at most.
MaxTicks == 2
\* authenticate() is called at most MaxCalls times.
MaxCalls == 2
\* The listener of one flow receives at most MaxRequests GET requests.
MaxRequests == 2

\* The API answers at most MaxHealthy requests of an operation before it
\* begins to refuse.
MaxHealthy == 2
\* The server's library holds at most MaxPlaylists playlists.
MaxPlaylists == 52
\* A playlist holds at most MaxTracks entries.
MaxTracks == 120
\* Entries without a track occur among the first MaxHoles of a playlist.
MaxHoles == 2
\* Playlists the server refuses to show are among the first MaxUnavailable.
MaxUnavailable == 1
\* A Playlist in a caller's hands holds at most MaxModelTracks tracks.
MaxModelTracks == 3

\* ------------------------------------------------------- program constants
\* is_token_valid's safety buffer, in seconds (config.py:166).
TokenBuffer == 300
\* wait_for_callback's default timeout, in seconds (oauth_server.py:152).
CallbackTimeout == 300
\* The only status the token endpoint's callers accept (oauth_server.py:193).
HttpOk == 200
\* Spotify's largest page (spotify_service.py:71 and :125).
PageMax == 50
\* The statuses _make_request tells apart (spotify_service.py:171-178).
HttpTooManyRequests == 429
HttpUnauthorized == 401
HttpBadRequest == 400
\* Seconds of one clock step: the grain at which the buffer and the
\* timeout are observed.
TickSecs == TokenBuffer

\* Python's None for a string-valued attribute.
None == "None"
\* Python's None for expires_at (a number when set): <<>> or <<n>>.
NoTime == <<>>
\* spotify_tokens.json does not exist.
NoFile == [exists |-> FALSE]
\* get_access_token() was not called.
NotCalled == "not called"
\* Python's None for get_user_playlists' limit (a number when given).
NoLimit == <<>>

\* ------------------------------------------------------------ input domains
\* Authorization codes a redirect may carry: "c1" is the code Spotify issued
\* for this flow, "c2" any other code (a forged or stale one).
Codes == {"c1", "c2"}
\* A `state` value that no flow of this process generated.
BadState == "bad"
\* The state get_authorization_url generates for the k-th listener: random
\* and unique, so distinct from every other flow's and from BadState.
StateNames == <<"S1", "S2", "S3", "S4">>
GeneratedState(k) == StateNames[k]
\* Access and refresh tokens the token endpoint hands out.
ServerAccessToken == "T1"
ServerRefreshToken == "R1"
\* expires_in values of a well-formed answer: one that the buffer eats up
\* entirely and one that lasts one clock step longer.
ExpiresIns == {TokenBuffer, TokenBuffer + TickSecs}

\* An answer of the token endpoint.  `refresh_token = None` is an answer
\* without that field; access_token = None one without access_token;
\* expires_in_type is "int" for a number, "str" for a non-number and
\* "absent" when the field is missing.
WellFormed ==
    [status : {HttpOk}, access_token : {ServerAccessToken},
     refresh_token : {ServerRefreshToken, None},
     expires_in : ExpiresIns, expires_in_type : {"int"}]
Malformed ==
    { [status |-> HttpOk, access_token |-> ServerAccessToken,
       refresh_token |-> ServerRefreshToken,
       expires_in |-> 0, expires_in_type |-> "absent"],
      [status |-> HttpOk, access_token |-> ServerAccessToken,
       refresh_token |-> ServerRefreshToken,
       expires_in |-> 0, expires_in_type |-> "str"] }
\* Answers with another status than 200: an error body, and a body that
\* would parse as a token answer.
ErrorStatuses == {400}
Rejected ==
    { [status |-> st, access_token |-> None, refresh_token |-> None,
       expires_in |-> 0, expires_in_type |-> "absent"] : st \in ErrorStatuses }
    \cup
    { [status |-> st, access_token |-> ServerAccessToken,
       refresh_token |-> ServerRefreshToken,
       expires_in |-> TokenBuffer + TickSecs, expires_in_type |-> "int"] :
       st \in ErrorStatuses }
TokenResponses == WellFormed \cup Malformed \cup Rejected
NoResponse ==
    [status |-> 0, access_token |-> None, refresh_token |-> None,
     expires_in |-> 0, expires_in_type |-> "absent"]

\* The query of a GET request to the listener: each parameter a value or None.
Request(c, s, e) == [code |-> c, state |-> s, error |-> e]
NoRequest == Request(None, None, None)

\* ------------------------------------------------------------------- state
VARIABLES
    \* TokenManager (config.py:123-128)
    access_token, refresh_token, expires_at,
    \* the persisted record spotify_tokens.json: a record, or NoFile
    token_file,
    \* whether spotify_tokens.json can be opened for writing
    writable,
    \* the TokenManager method that a caller other than the authenticator
    \* ran last, with its arguments
    last_call,
    \* time.time()
    now,
    \* SpotifyOAuthServer.server: "none", "serving" (bound, thread running)
    \* or "closed" (shut down and closed, the attribute still set)
    server,
    \* the attributes start_server adds to the HTTPServer
    auth_code, auth_error, auth_state, callback_received,
    \* SpotifyOAuthServer.expected_state; None while the attribute is unset
    expected_state,
    \* the listener thread: its place in do_GET and the request it handles
    handler_pc, request,
    \* the orchestrator: its place in authenticate(), wait_for_callback's
    \* start_time, the code wait_for_callback returned, the value
    \* _new_authentication is about to return
    pc, start_time, code, ret,
    \* history of the current authenticate() call
    calls,          \* authenticate() calls made so far
    result,         \* what the last finished call returned: "none", "true", "false"
    posts,          \* grant types POSTed to the token endpoint, in order
    starts,         \* start_server() calls
    urls,           \* authorization URLs opened in the browser
    stops,          \* stop_server() calls
    requests,       \* GET requests the current listener has accepted
    resolver,       \* the request whose do_GET first set callback_received
    exit_path,      \* how the new flow left its try block
    response,       \* the token endpoint's answer to _refresh_token, and
                    \* from start_server on to the code exchange
    saved_at,       \* the clock when save_tokens last ran
    entry_store,    \* the TokenStore when authenticate() was entered
    entry_valid,    \* is_token_valid() when authenticate() was entered
    flow_store,     \* the TokenStore when _new_authentication was entered
    got,            \* what get_access_token() returned when last called
                    \* since the last authenticate(); NotCalled before
    occupied,       \* whether another process held port 8000 when
                    \* start_server last tried to bind it
    \* SpotifyService._authenticated, the id of SpotifyService._user_profile
    \* (None while no profile is loaded), and SpotifyConfig's client_id and
    \* client_secret
    _authenticated, _user_profile, config,
    \* the Spotify Web API: how many playlists the user's library holds
    \* (ids 1..playlist_total, in server order), how many entries each
    \* playlist holds (entry i carries track i), which entries carry no
    \* track, which playlists answer 404, the status the API answers with
    \* when it is not 200, how many requests of an operation it answers
    \* before that, and the form of the Retry-After header of a 429
    playlist_total, track_total, holes, unavailable, api_status, healthy,
    retry_after,
    \* the running fetch: the public operation, its place, and its locals
    op, spc, limit, batch_limit, offset, playlists, index,
    playlist_id, track_offset, tracks,
    \* what the fetch has sent and how it ended
    list_requests,  \* [limit, offset] of the list-playlists requests sent
    track_requests, \* offsets of the track requests of the current
                    \* get_playlist_tracks
    outcome,        \* "none", "returned", or the exception raised
    api_log,        \* the requests the operation has sent, in order:
                    \* <<endpoint, playlist id, offset, status answered>>
    \* a Playlist object of models.py in the hands of a caller: the object,
    \* what the caller did with it last, and what its two derived
    \* properties returned when last read (<<>> before the first read)
    playlist, model_op, duration_read, artists_read

tokenVars == <<access_token, refresh_token, expires_at, token_file>>
serverVars == <<server, auth_code, auth_error, auth_state, callback_received>>
handlerVars == <<handler_pc, request, requests, resolver>>
historyVars == <<calls, result, posts, starts, urls, stops, exit_path,
                 response, saved_at, entry_store, entry_valid, flow_store,
                 occupied>>
authVars == <<tokenVars, writable, now, serverVars, expected_state,
              handlerVars, pc, start_time, code, ret, historyVars, got,
              last_call>>
apiVars == <<playlist_total, track_total, holes, unavailable, api_status,
             healthy, retry_after>>
fetchVars == <<op, spc, limit, batch_limit, offset, playlists, index,
               playlist_id, track_offset, tracks, list_requests,
               track_requests, outcome, api_log>>
sessionVars == <<_authenticated, _user_profile, config>>
serviceVars == <<sessionVars, apiVars, fetchVars>>
modelVars == <<playlist, model_op, duration_read, artists_read>>
vars == <<authVars, serviceVars, modelVars>>

\* ------------------------------------------------------------ TokenManager
\* Python truthiness of an Optional[str] and of an Optional[float].
Truthy(s) == s # None /\ s # ""
TruthyTime(t) == t # NoTime /\ t[1] # 0

\* The TokenStore as one value: the in-memory fields and the persisted record.
TokenStore ==
    [access_token |-> access_token, refresh_token |-> refresh_token,
     expires_at |-> expires_at, token_file |-> token_file]

TokenRecord(a, r, e) == [access_token |-> a, refresh_token |-> r, expires_at |-> e]

\* A call of a TokenManager method at the clock's present value: the method,
\* its arguments, and the method called before it.
Call(method, a, r, e) ==
    [op |-> method, access_token |-> a, refresh_token |-> r, expires_in |-> e,
     at |-> now, before |-> last_call.op]
\* No method was called since the TokenManager was constructed.
NoCall ==
    [op |-> "none", access_token |-> None, refresh_token |-> None,
     expires_in |-> 0, at |-> 0, before |-> "none"]

\* is_token_valid without the five-minute buffer.
is_token_valid_without_buffer(a, e, t) ==
    IF ~Truthy(a) \/ ~TruthyTime(e) THEN FALSE ELSE t < e[1]

\* TokenManager.is_token_valid at clock t.
is_token_valid_at(a, e, t) ==
    IF ~Truthy(a) \/ ~TruthyTime(e) THEN FALSE ELSE t < e[1] - TokenBuffer
is_token_valid == is_token_valid_at(access_token, expires_at, now)

\* TokenManager.has_refresh_token.
has_refresh_token == Truthy(refresh_token)

\* TokenManager.save_tokens raises (TypeError at time.time() + expires_in)
\* when expires_in is not a number, and (OSError at open(..., 'w')) when the
\* file cannot be opened for writing.
save_tokens_raises(resp) == resp.expires_in_type # "int" \/ ~writable

\* A save_tokens that stores the lifetime where the expiry time belongs.
save_tokens_without_clock(a, r, resp) ==
    /\ access_token' = a
    /\ refresh_token' = r
    /\ expires_at' = <<resp.expires_in>>
    /\ token_file' = TokenRecord(a, r, <<resp.expires_in>>)
    /\ saved_at' = now

\* TokenManager.save_tokens(a, r, resp.expires_in): the fields are assigned
\* one by one, then the record is written; a non-numeric expires_in raises
\* after access_token and refresh_token were assigned, a file that cannot
\* be opened raises after all three fields were assigned.
save_tokens(a, r, resp) ==
    /\ access_token' = a
    /\ refresh_token' = r
    /\ IF resp.expires_in_type # "int"
       THEN UNCHANGED <<expires_at, token_file, saved_at>>
       ELSE /\ expires_at' = <<now + resp.expires_in>>
            /\ IF writable
               THEN /\ token_file' =
                          TokenRecord(a, r, <<now + resp.expires_in>>)
                    /\ saved_at' = now
               ELSE UNCHANGED <<token_file, saved_at>>

\* get_access_token without the validity check.
get_access_token_unchecked == access_token

\* SpotifyAuthenticator.get_access_token: the value it returns.
get_access_token == IF is_token_valid THEN access_token ELSE None

\* The records a previous run may have left in spotify_tokens.json.
StoredRecords ==
    [access_token : {"T0"}, refresh_token : {"R0", None},
     expires_at : {NoTime, <<TokenBuffer>>, <<TokenBuffer + 2 * TickSecs>>}]

\* TokenManager.__init__ and load_tokens: the fields of the record, or all
\* None when there is no file.
load_tokens(file) ==
    /\ token_file = file
    /\ access_token = IF file = NoFile THEN None ELSE file.access_token
    /\ refresh_token = IF file = NoFile THEN None ELSE file.refresh_token
    /\ expires_at = IF file = NoFile THEN NoTime ELSE file.expires_at

\* The authenticator between two calls, at clock t, with the token file
\* loaded: n calls of authenticate() were made, the last one returned res
\* without a request or a listener (res is "none" when n = 0).
AuthenticatorAtRest(file, t, n, res) ==
    /\ load_tokens(file)
    /\ last_call = NoCall
    /\ now = t
    /\ server = "none"
    /\ auth_code = None /\ auth_error = None /\ auth_state = None
    /\ callback_received = FALSE
    /\ expected_state = None
    /\ handler_pc = "idle" /\ request = NoRequest
    /\ pc = "idle" /\ start_time = 0 /\ code = None /\ ret = "none"
    /\ calls = n /\ result = res /\ posts = <<>> /\ starts = 0
    /\ urls = 0 /\ stops = 0 /\ requests = 0 /\ resolver = NoRequest
    /\ exit_path = "none" /\ response = NoResponse /\ saved_at = 0
    /\ entry_store = TokenStore /\ flow_store = TokenStore
    /\ entry_valid = (res = "true")
    /\ got = NotCalled
    /\ occupied = FALSE

\* No fetch is running.
FetchAtRest ==
    /\ op = "none" /\ spc = "idle" /\ outcome = "none"
    /\ limit = NoLimit /\ batch_limit = 0 /\ offset = 0
    /\ playlists = <<>> /\ index = 0
    /\ playlist_id = 0 /\ track_offset = 0 /\ tracks = <<>>
    /\ list_requests = <<>> /\ track_requests = <<>> /\ api_log = <<>>

\* SpotifyService.__init__, and an API with an empty library that answers
\* 200.
ServiceAtRest ==
    /\ _authenticated = FALSE
    /\ _user_profile = None
    /\ playlist_total = 0 /\ track_total = 0
    /\ holes = {} /\ unavailable = {}
    /\ api_status = HttpOk /\ healthy = 0 /\ retry_after = "seconds"
    /\ FetchAtRest

\* ------------------------------------------------------------ models.py
\* Artist names are strings; a string is the sequence of its code points,
\* and Python compares strings code point by code point, a proper prefix
\* coming first.
str_lt(a, b) ==
    \E k \in 1..(Len(a) + 1) :
        /\ \A j \in 1..(k - 1) : j <= Len(b) /\ a[j] = b[j]
        /\ k <= Len(b)
        /\ k <= Len(a) => a[k] < b[k]

\* The names "A", "Ab", "B" and "a".
ArtistNames == {<<65>>, <<65, 98>>, <<66>>, <<97>>}
\* The Track objects a playlist is built from: duration_ms, and the names of
\* the Artist objects in `artists`, in order.
TrackPool ==
    {[duration_ms |-> 180000, artists |-> << <<66>>, <<65>> >>],
     [duration_ms |-> 180000, artists |-> << <<65>> >>],
     [duration_ms |-> 240000, artists |-> << <<97>>, <<65, 98>>, <<97>> >>]}
TrackLists == UNION {[1..n -> TrackPool] : n \in 0..MaxModelTracks}

\* sum(track.duration_ms for track in tracks[k:]), added up from the left.
RECURSIVE sum_from(_, _, _)
sum_from(tracks_, k, acc) ==
    IF k > Len(tracks_) THEN acc
    ELSE sum_from(tracks_, k + 1, acc + tracks_[k].duration_ms)

\* A sum that counts each duration once.
RECURSIVE sum_of_set(_)
sum_of_set(S) ==
    IF S = {} THEN 0
    ELSE LET d == CHOOSE x \in S : TRUE IN d + sum_of_set(S \ {d})
total_duration_of_distinct(p) ==
    sum_of_set({p.tracks[k].duration_ms : k \in 1..Len(p.tracks)})

\* Playlist.total_duration_ms.
total_duration_ms(p) == sum_from(p.tracks, 1, 0)

\* The set that the two loops of unique_artists fill.
artist_set(p) ==
    UNION {{p.tracks[k].artists[j] : j \in 1..Len(p.tracks[k].artists)} :
              k \in 1..Len(p.tracks)}

\* sorted(list(s)) for a set of strings.
RECURSIVE sorted(_)
sorted(S) ==
    IF S = {} THEN <<>>
    ELSE LET least == CHOOSE x \in S : \A y \in S \ {x} : str_lt(x, y)
         IN  <<least>> \o sorted(S \ {least})

\* The names in order of first appearance, without the sort.
RECURSIVE first_appearances(_, _)
first_appearances(names, acc) ==
    IF names = <<>> THEN acc
    ELSE first_appearances(Tail(names),
             IF \E j \in 1..Len(acc) : acc[j] = Head(names)
             THEN acc ELSE Append(acc, Head(names)))
RECURSIVE all_names(_, _)
all_names(tracks_, k) ==
    IF k > Len(tracks_) THEN <<>>
    ELSE tracks_[k].artists \o all_names(tracks_, k + 1)
artists_unsorted(p) == first_appearances(all_names(p.tracks, 1), <<>>)

\* Playlist.unique_artists.
unique_artists(p) == sorted(artist_set(p))

\* No Playlist was built yet.
ModelsAtRest ==
    /\ playlist = [tracks |-> <<>>]
    /\ model_op = "none"
    /\ duration_read = <<>> /\ artists_read = <<>>

\* playlist.tracks = new_tracks: the dataclass is not frozen.
set_tracks ==
    /\ \E new_tracks \in TrackLists :
           playlist' = [playlist EXCEPT !.tracks = new_tracks]
    /\ model_op' = "set_tracks"
    /\ UNCHANGED <<duration_read, artists_read, authVars, serviceVars>>

\* A read of playlist.total_duration_ms.
read_total_duration_ms ==
    /\ duration_read' = <<total_duration_ms(playlist)>>
    /\ model_op' = "total_duration_ms"
    /\ UNCHANGED <<playlist, artists_read, authVars, serviceVars>>

\* A read of playlist.unique_artists.
read_unique_artists ==
    /\ artists_read' = <<unique_artists(playlist)>>
    /\ model_op' = "unique_artists"
    /\ UNCHANGED <<playlist, duration_read, authVars, serviceVars>>

\* A Playlist constructed with any list of tracks.
ModelsInit ==
    /\ AuthenticatorAtRest(NoFile, 0, 0, "none")
    /\ config = [client_id |-> "id", client_secret |-> "secret"]
    /\ ServiceAtRest
    /\ writable = TRUE
    /\ playlist \in [tracks : TrackLists]
    /\ model_op = "none"
    /\ duration_read = <<>> /\ artists_read = <<>>

ModelsNext ==
    \/ set_tracks
    \/ read_total_duration_ms
    \/ read_unique_artists

ModelsSpec == ModelsInit /\ [][ModelsNext]_vars

\* client_id and client_secret as load_config leaves them: set, missing
\* from the environment and the file, or set to nothing.
Configs == [client_id : {"id", None}, client_secret : {"secret", None, ""}]

Init ==
    /\ \E file \in StoredRecords \cup {NoFile} :
           AuthenticatorAtRest(file, 0, 0, "none")
    /\ config \in Configs
    /\ ServiceAtRest
    /\ ModelsAtRest
    /\ writable = TRUE

\* ------------------------------------------------------------------- clock
\* Only authenticate, _refresh_token, wait_for_callback, poll and
\* exchange_code_for_tokens read the clock, so a step of the clock is taken
\* right before one of them.  No time passes between the authenticator's
\* return and what SpotifyService.authenticate() does with it.
Tick ==
    /\ now < MaxTicks * TickSecs
    /\ pc \in {"idle", "_refresh_token", "wait_for_callback", "poll",
               "exchange_code_for_tokens"}
    /\ pc = "idle" => spc = "idle"
    /\ now' = now + TickSecs
    /\ UNCHANGED <<got, last_call, tokenVars, serverVars, expected_state, handlerVars,
                   pc, start_time, code, ret, historyVars, serviceVars>>
    /\ UNCHANGED <<writable, modelVars>>

\* --------------------------------------------------------- CallbackHandler
\* The queries a GET request to the listener may carry.  A redirect made from
\* the authorization URL carries the state of that URL, so the expected state
\* occurs only once the URL of this flow was handed out.
Requests ==
    { Request("c2", BadState, None), Request("c2", None, None),
      Request(None, None, "access_denied"), Request(None, None, None) }
    \cup (IF urls > 0 THEN {Request("c1", expected_state, None)} ELSE {})

\* do_GET up to its first assignment: `code` wins over `error`, a request
\* with neither stores nothing.
do_GET(r) ==
    /\ server = "serving" /\ handler_pc = "idle"
    /\ requests < MaxRequests
    /\ requests' = requests + 1
    /\ request' = r
    /\ IF r.code # None
       THEN /\ auth_code' = r.code
            /\ handler_pc' = "auth_state"
            /\ UNCHANGED auth_error
       ELSE IF r.error # None
       THEN /\ auth_error' = r.error
            /\ handler_pc' = "callback_received"
            /\ UNCHANGED auth_code
       ELSE /\ handler_pc' = "callback_received"
            /\ UNCHANGED <<auth_code, auth_error>>
    /\ UNCHANGED <<got, last_call, tokenVars, now, server, auth_state, callback_received,
                   expected_state, resolver, pc, start_time, code, ret,
                   historyVars, serviceVars>>
    /\ UNCHANGED <<writable, modelVars>>

\* self.server.auth_state = query_params.get('state', [None])[0]
do_GET_auth_state ==
    /\ handler_pc = "auth_state"
    /\ auth_state' = request.state
    /\ handler_pc' = "callback_received"
    /\ UNCHANGED <<got, last_call, tokenVars, now, server, auth_code, auth_error,
                   callback_received, expected_state, request, requests,
                   resolver, pc, start_time, code, ret, historyVars,
                   serviceVars>>
    /\ UNCHANGED <<writable, modelVars>>

\* self.server.callback_received = True, after the response was written.
do_GET_callback_received ==
    /\ handler_pc = "callback_received"
    /\ callback_received' = TRUE
    /\ resolver' = IF callback_received THEN resolver ELSE request
    /\ handler_pc' = "idle"
    /\ request' = NoRequest
    /\ UNCHANGED <<got, last_call, tokenVars, now, server, auth_code, auth_error,
                   auth_state, expected_state, requests, pc, start_time, code,
                   ret, historyVars, serviceVars>>
    /\ UNCHANGED <<writable, modelVars>>

\* ------------------------------------------------------ SpotifyOAuthServer
\* exchange_code_for_tokens without its status check.
exchange_code_for_tokens_never_raises(resp) == FALSE

\* refresh_access_token and exchange_code_for_tokens raise on a status
\* other than 200.
refresh_access_token_raises(resp) == resp.status # HttpOk
exchange_code_for_tokens_raises(resp) == resp.status # HttpOk

\* The listener holds port 8000.
port_bound == server = "serving"

\* ---------------------------------------------------- SpotifyAuthenticator
\* authenticate() skips the cache check.
first_step_without_cache ==
    IF has_refresh_token THEN "_refresh_token" ELSE "start_server"

\* A new flow that hands out the URL before it starts the listener.
first_step_without_listener ==
    IF is_token_valid THEN "idle"
    ELSE IF has_refresh_token THEN "_refresh_token"
    ELSE "get_authorization_url"

\* Where authenticate() goes first: back to the caller ("idle") on a valid
\* token, to _refresh_token when a refresh token is stored, to
\* _new_authentication otherwise.
first_step ==
    IF is_token_valid THEN "idle"
    ELSE IF has_refresh_token THEN "_refresh_token"
    ELSE "start_server"

\* authenticate(): the cache check and the choice of the next step.
authenticate ==
    /\ pc = "idle" /\ calls < MaxCalls
    /\ calls' = calls + 1
    /\ posts' = <<>> /\ starts' = 0 /\ urls' = 0 /\ stops' = 0
    /\ exit_path' = "none" /\ response' = NoResponse
    /\ entry_store' = TokenStore /\ flow_store' = TokenStore
    /\ entry_valid' = is_token_valid
    /\ pc' = first_step
    /\ result' = IF first_step = "idle" THEN "true" ELSE "none"
    /\ got' = NotCalled /\ occupied' = FALSE
    /\ UNCHANGED <<tokenVars, now, serverVars, expected_state, handlerVars,
                   start_time, code, ret, saved_at, last_call>>

\* _refresh_token with token_response['refresh_token'] in place of .get.
refreshed_token_without_default(resp) == resp.refresh_token

\* The refresh token _refresh_token saves: the answer's, or the stored one.
refreshed_token(resp) ==
    IF resp.refresh_token # None THEN resp.refresh_token ELSE refresh_token

\* _refresh_token(): any exception makes it return False, and authenticate()
\* goes on to _new_authentication.
_refresh_token ==
    /\ pc = "_refresh_token"
    /\ \E resp \in TokenResponses :
        /\ posts' = Append(posts, "refresh_token")
        /\ response' = resp
        /\ IF \/ refresh_access_token_raises(resp)
              \/ resp.access_token = None
              \/ resp.expires_in_type = "absent"
           THEN /\ pc' = "start_server"
                /\ UNCHANGED <<tokenVars, saved_at, result>>
           ELSE /\ save_tokens(resp.access_token, refreshed_token(resp), resp)
                /\ IF save_tokens_raises(resp)
                   THEN pc' = "start_server" /\ UNCHANGED result
                   ELSE pc' = "idle" /\ result' = "true"
    /\ UNCHANGED <<occupied, got, last_call, now, serverVars, expected_state,
                   handlerVars, start_time, code, ret, calls, starts, urls,
                   stops, exit_path, entry_store, entry_valid, flow_store,
                   serviceVars>>
    /\ UNCHANGED <<writable, modelVars>>

\* An except clause that returns without a finally clause behind it.
raise_without_finally(path) ==
    /\ pc' = "idle"
    /\ ret' = "false"
    /\ exit_path' = path

\* An exception inside _new_authentication's try block: return False, by way
\* of the finally clause.
raise(path) ==
    /\ pc' = "stop_server"
    /\ ret' = "false"
    /\ exit_path' = path

\* A bind that succeeds whoever holds the port.
bind_never_fails(taken) == FALSE

\* HTTPServer(('127.0.0.1', 8000), ...) cannot bind: another process holds
\* the port (taken), or this process's own listener still does.
bind_fails(taken) == taken \/ port_bound

\* start_server(): HTTPServer(...) raises when port 8000 cannot be bound,
\* and then self.server keeps its previous value.
start_server ==
    /\ pc = "start_server"
    /\ flow_store' = TokenStore
    /\ starts' = starts + 1
    /\ response' = NoResponse
    /\ \E taken \in BOOLEAN :
        /\ occupied' = taken
        /\ IF bind_fails(taken)
           THEN /\ raise("bind_error")
                /\ UNCHANGED <<serverVars, requests, resolver>>
           ELSE /\ server' = "serving"
                /\ auth_code' = None /\ auth_error' = None
                /\ auth_state' = None
                /\ callback_received' = FALSE
                /\ requests' = 0 /\ resolver' = NoRequest
                /\ pc' = "get_authorization_url"
                /\ UNCHANGED <<ret, exit_path>>
    /\ UNCHANGED <<got, last_call, tokenVars, now, expected_state, handler_pc, request,
                   start_time, code, calls, result, posts, urls, stops,
                   saved_at, entry_store, entry_valid, serviceVars>>
    /\ UNCHANGED <<writable, modelVars>>

\* get_authorization_url() and webbrowser.open(auth_url).
get_authorization_url ==
    /\ pc = "get_authorization_url"
    /\ expected_state' = GeneratedState(calls)
    /\ urls' = urls + 1
    /\ pc' = "wait_for_callback"
    /\ UNCHANGED <<occupied, got, last_call, tokenVars, now, serverVars, handlerVars,
                   start_time, code, ret, calls, result, posts, starts, stops,
                   exit_path, response, saved_at, entry_store, entry_valid,
                   flow_store, serviceVars>>
    /\ UNCHANGED <<writable, modelVars>>

\* wait_for_callback(): start_time = time.time().
wait_for_callback ==
    /\ pc = "wait_for_callback"
    /\ start_time' = now
    /\ pc' = "poll"
    /\ UNCHANGED <<got, last_call, tokenVars, now, serverVars, expected_state,
                   handlerVars, code, ret, historyVars, serviceVars>>
    /\ UNCHANGED <<writable, modelVars>>

\* The poll loop without its timeout.
never_timed_out(start) == FALSE

\* time.time() - start_time > timeout
timed_out(start) == now - start > CallbackTimeout

\* The poll loop: leave it once callback_received is set, raise TimeoutError
\* once more than the timeout has passed, sleep otherwise.
poll ==
    /\ pc = "poll"
    /\ IF callback_received
       THEN pc' = "check_error" /\ UNCHANGED <<ret, exit_path>>
       ELSE /\ timed_out(start_time)
            /\ raise("timeout")
    /\ UNCHANGED <<occupied, got, last_call, tokenVars, now, serverVars, expected_state,
                   handlerVars, start_time, code, calls, result, posts,
                   starts, urls, stops, response, saved_at, entry_store,
                   entry_valid, flow_store, serviceVars>>
    /\ UNCHANGED <<writable, modelVars>>

\* wait_for_callback without its error check.
check_error_skipped ==
    /\ pc = "check_error"
    /\ pc' = "check_state"
    /\ UNCHANGED <<got, last_call, tokenVars, now, serverVars, expected_state,
                   handlerVars, start_time, code, ret, historyVars,
                   serviceVars>>
    /\ UNCHANGED <<writable, modelVars>>

\* if ... self.server.auth_error: raise
check_error ==
    /\ pc = "check_error"
    /\ IF Truthy(auth_error)
       THEN raise("oauth_error")
       ELSE pc' = "check_state" /\ UNCHANGED <<ret, exit_path>>
    /\ UNCHANGED <<occupied, got, last_call, tokenVars, now, serverVars, expected_state,
                   handlerVars, start_time, code, calls, result, posts,
                   starts, urls, stops, response, saved_at, entry_store,
                   entry_valid, flow_store, serviceVars>>
    /\ UNCHANGED <<writable, modelVars>>

\* if ... self.server.auth_state != self.expected_state: raise
check_state ==
    /\ pc = "check_state"
    /\ IF auth_state # expected_state
       THEN raise("state_mismatch")
       ELSE pc' = "return_auth_code" /\ UNCHANGED <<ret, exit_path>>
    /\ UNCHANGED <<occupied, got, last_call, tokenVars, now, serverVars, expected_state,
                   handlerVars, start_time, code, calls, result, posts,
                   starts, urls, stops, response, saved_at, entry_store,
                   entry_valid, flow_store, serviceVars>>
    /\ UNCHANGED <<writable, modelVars>>

\* return self.server.auth_code, and the caller's `if not auth_code: raise`.
return_auth_code ==
    /\ pc = "return_auth_code"
    /\ code' = auth_code
    /\ IF ~Truthy(auth_code)
       THEN raise("no_code")
       ELSE pc' = "exchange_code_for_tokens" /\ UNCHANGED <<ret, exit_path>>
    /\ UNCHANGED <<occupied, got, last_call, tokenVars, now, serverVars, expected_state,
                   handlerVars, start_time, calls, result, posts, starts,
                   urls, stops, response, saved_at, entry_store, entry_valid,
                   flow_store, serviceVars>>
    /\ UNCHANGED <<writable, modelVars>>

\* exchange_code_for_tokens(auth_code) and save_tokens of its answer.
exchange_code_for_tokens ==
    /\ pc = "exchange_code_for_tokens"
    /\ \E resp \in TokenResponses :
        /\ posts' = Append(posts, "authorization_code")
        /\ response' = resp
        /\ IF exchange_code_for_tokens_raises(resp)
           THEN raise("exchange_failed") /\ UNCHANGED <<tokenVars, saved_at>>
           ELSE IF \/ resp.access_token = None
                   \/ resp.refresh_token = None
                   \/ resp.expires_in_type = "absent"
           THEN raise("key_error") /\ UNCHANGED <<tokenVars, saved_at>>
           ELSE /\ save_tokens(resp.access_token, resp.refresh_token, resp)
                /\ IF save_tokens_raises(resp)
                   THEN raise("type_error")
                   ELSE /\ pc' = "stop_server"
                        /\ ret' = "true"
                        /\ exit_path' = "success"
    /\ UNCHANGED <<occupied, got, last_call, now, serverVars, expected_state,
                   handlerVars, start_time, code, calls, result, starts, urls,
                   stops, entry_store, entry_valid, flow_store, serviceVars>>
    /\ UNCHANGED <<writable, modelVars>>

\* A caller (SpotifyService._make_request) calls get_access_token() between
\* two authenticate() calls: it reads the TokenStore and the clock and
\* returns.
call_get_access_token ==
    /\ pc = "idle" /\ spc = "idle"
    /\ got' = get_access_token
    /\ UNCHANGED <<tokenVars, now, serverVars, expected_state, handlerVars,
                   pc, start_time, code, ret, historyVars, last_call,
                   serviceVars>>
    /\ UNCHANGED <<writable, modelVars>>

\* A stop_server that leaves the listening socket open.
server_left_open == server

\* self.server after shutdown() and server_close(): closed, or still None
\* when no server was ever created.
server_close == IF server = "none" THEN "none" ELSE "closed"

\* A shutdown() that waits for a serving loop even where none is running.
shutdown_waits_for_loop == server = "serving" /\ handler_pc = "idle"

\* server.shutdown() returns: after the request being handled when the
\* serving loop runs, at once when the loop has already ended; it is not
\* called at all when no server was ever created.
shutdown_returns == server = "serving" => handler_pc = "idle"

\* stop_server() in the finally clause, then the return.  server.shutdown()
\* waits for the request being handled; a server that was never created is
\* left alone, one already closed is closed again.
stop_server ==
    /\ pc = "stop_server"
    /\ shutdown_returns
    /\ server' = server_close
    /\ stops' = stops + 1
    /\ result' = ret
    /\ pc' = "idle"
    /\ start_time' = 0 /\ code' = None /\ ret' = "none"
    /\ UNCHANGED <<occupied, got, last_call, tokenVars, now, auth_code, auth_error,
                   auth_state, callback_received, expected_state, handlerVars,
                   calls, posts, starts, urls, exit_path, response, saved_at,
                   entry_store, entry_valid, flow_store, serviceVars>>
    /\ UNCHANGED <<writable, modelVars>>

\* ---------------------------------------------------------- Spotify Web API
Min(a, b) == IF a < b THEN a ELSE b

\* One page of a collection of `total` items: the items at offset + 1 ..
\* offset + lim, as many as exist, and whether a further page exists.
PageItems(total, lim, off) ==
    [i \in 1..(Min(off + lim, total) - Min(off, total)) |-> off + i]
HasNext(total, lim, off) == off + lim < total

\* The status the API answers the operation's next request with, a request
\* about playlist id (id 0: a request about no single playlist).
StatusFor(id) ==
    IF api_status # HttpOk /\ Len(api_log) >= healthy THEN api_status
    ELSE IF id \in unavailable THEN 404
    ELSE HttpOk

\* The libraries explored: any number of playlists whose entries are few,
\* or one playlist with any number of entries.
Libraries ==
    { l \in [playlist_total : 0..MaxPlaylists, track_total : 0..MaxTracks,
             holes : SUBSET (1..MaxHoles)] :
        /\ l.playlist_total # 1 => l.track_total <= 1
        /\ l.holes \subseteq 1..l.track_total }
\* The statuses the API answers with: two below 400, the least one that is
\* an error, 401, 429 and a server error.
ApiStatuses ==
    {HttpOk, 201, HttpBadRequest, HttpUnauthorized, HttpTooManyRequests, 500}
\* The Retry-After header of a 429: missing, a number of seconds, or an
\* HTTP date.
RetryAfters == {"absent", "seconds", "date"}

\* The user the tokens belong to, and another user.
CurrentUser == "u1"
OtherUser == "u2"
\* The owner of playlist id and its `collaborative` field, as the API
\* reports them: every owner with every value of the field.
OwnerId(id) == IF id % 2 = 1 THEN CurrentUser ELSE OtherUser
CollaborativeField(id) ==
    IF (id \div 2) % 3 = 0 THEN "false"
    ELSE IF (id \div 2) % 3 = 1 THEN "true"
    ELSE "absent"

\* The entries of a playlist that carry no track come in both forms: `track`
\* is null, or `track.id` is null (a local file).
track_is_null(i) == i \in holes /\ i % 2 = 1
track_id_is_null(i) == i \in holes /\ i % 2 = 0

\* ----------------------------------------------------------- SpotifyService
\* A check that takes every configuration for complete.
configuration_unchecked == TRUE
\* SpotifyConfig.is_configured.
is_configured == Truthy(config.client_id) /\ Truthy(config.client_secret)

\* SpotifyService.is_authenticated.
is_authenticated == _authenticated /\ is_token_valid

\* `if limit`: given and not 0.
LimitGiven(l) == l # NoLimit /\ l[1] # 0
\* The limits a caller passes to get_user_playlists.
Limits == {NoLimit} \cup { <<l>> : l \in {0, 1, 2, PageMax, PageMax + 1} }

\* int(response.headers.get("Retry-After", 60)) raises on a header that is
\* not a number.
retry_after_raises == retry_after = "date"

\* _make_request: the exception it raises, or "ok".  Without a valid token
\* no request is sent.
_make_request(status) ==
    IF get_access_token = None THEN "AuthenticationError"
    ELSE IF status = HttpTooManyRequests
    THEN IF retry_after_raises THEN "ValueError" ELSE "RateLimitError"
    ELSE IF status = HttpUnauthorized THEN "AuthenticationError"
    ELSE IF status >= HttpBadRequest THEN "MusicServiceError"
    ELSE "ok"
request_sent == get_access_token # None

\* The log after _make_request for `endpoint`: one entry more when the
\* request was sent.
sent(endpoint, id, off) ==
    IF request_sent
    THEN Append(api_log, <<endpoint, id, off, StatusFor(id)>>)
    ELSE api_log

\* A classification that leaves the `collaborative` field aside.
playlist_type_by_owner(id) ==
    IF OwnerId(id) = _user_profile THEN "OWNED" ELSE "FOLLOWED"

\* _parse_playlist_summary's playlist_type: the owner compared with the
\* loaded profile's id (None without a profile), then data.get(
\* "collaborative", False).
playlist_type(id) ==
    IF OwnerId(id) = _user_profile
    THEN IF CollaborativeField(id) = "true" THEN "COLLABORATIVE" ELSE "OWNED"
    ELSE "FOLLOWED"

\* _parse_playlist_summary: the fields of a playlist the model keeps.
Playlist(id) ==
    [id |-> id, playlist_type |-> playlist_type(id),
     track_count |-> track_total, tracks |-> <<>>]

\* An exception leaves the public operation.
raise_to_caller(e) ==
    /\ spc' = "idle"
    /\ outcome' = e

\* SpotifyService.authenticate() up to the first step of
\* authenticator.authenticate(): without client_id or client_secret it
\* returns False at once.
SpotifyService_authenticate ==
    /\ spc = "idle"
    /\ op' = "authenticate"
    /\ limit' = NoLimit /\ batch_limit' = 0
    /\ playlists' = <<>> /\ offset' = 0 /\ index' = 0
    /\ playlist_id' = 0 /\ track_offset' = 0 /\ tracks' = <<>>
    /\ list_requests' = <<>> /\ track_requests' = <<>> /\ api_log' = <<>>
    /\ IF ~is_configured
       THEN /\ spc' = "idle" /\ outcome' = "false"
            /\ UNCHANGED authVars
       ELSE /\ authenticate
            /\ spc' = "authenticate" /\ outcome' = "none"
    /\ UNCHANGED <<sessionVars, apiVars>>
    /\ UNCHANGED <<writable, modelVars>>

\* SpotifyService.authenticate() once the authenticator has returned: on
\* success the flag is set and get_user_profile() is tried, whose exception
\* is swallowed.
authenticate_returns ==
    /\ spc = "authenticate" /\ pc = "idle"
    /\ spc' = "idle" /\ outcome' = result
    /\ IF result = "true"
       THEN /\ _authenticated' = TRUE
            /\ api_log' = sent("me", 0, 0)
            /\ _user_profile' =
                  IF _make_request(StatusFor(0)) = "ok" THEN CurrentUser
                  ELSE _user_profile
       ELSE UNCHANGED <<_authenticated, _user_profile, api_log>>
    /\ UNCHANGED <<authVars, config, apiVars, op, limit, batch_limit, offset,
                   playlists, index, playlist_id, track_offset, tracks,
                   list_requests, track_requests>>
    /\ UNCHANGED <<writable, modelVars>>

\* An operation that does not look at the flag.
flag_unchecked == FALSE

\* `if not self._authenticated: raise AuthenticationError`
not_authenticated == ~_authenticated

\* get_user_profile(), called by itself.
get_user_profile ==
    /\ spc = "idle"
    /\ op' = "get_user_profile"
    /\ limit' = NoLimit /\ batch_limit' = 0
    /\ playlists' = <<>> /\ offset' = 0 /\ index' = 0
    /\ playlist_id' = 0 /\ track_offset' = 0 /\ tracks' = <<>>
    /\ list_requests' = <<>> /\ track_requests' = <<>>
    /\ spc' = "idle"
    /\ IF not_authenticated
       THEN outcome' = "AuthenticationError" /\ api_log' = <<>>
       ELSE /\ api_log' = IF request_sent
                          THEN <<(<<"me", 0, 0, StatusFor(0)>>)>> ELSE <<>>
            /\ outcome' = IF _make_request(StatusFor(0)) = "ok"
                          THEN "returned" ELSE _make_request(StatusFor(0))
    /\ UNCHANGED <<authVars, sessionVars, apiVars>>
    /\ UNCHANGED <<writable, modelVars>>

\* get_user_playlists(limit) up to its first request.
get_user_playlists ==
    /\ spc = "idle"
    /\ \E l \in Limits :
        /\ limit' = l
        /\ batch_limit' = IF LimitGiven(l) THEN Min(PageMax, l[1]) ELSE PageMax
    /\ op' = "get_user_playlists"
    /\ playlists' = <<>> /\ offset' = 0 /\ index' = 0
    /\ playlist_id' = 0 /\ track_offset' = 0 /\ tracks' = <<>>
    /\ list_requests' = <<>> /\ track_requests' = <<>> /\ api_log' = <<>>
    /\ IF not_authenticated
       THEN raise_to_caller("AuthenticationError")
       ELSE spc' = "list_page" /\ outcome' = "none"
    /\ UNCHANGED <<authVars, sessionVars, apiVars>>
    /\ UNCHANGED <<writable, modelVars>>

\* A result that is not cut to the limit.
unlimited(acc) == acc

\* The playlists the list loop hands on: all of them, or the first `limit`.
limited(acc) ==
    IF LimitGiven(limit) THEN SubSeq(acc, 1, Min(limit[1], Len(acc))) ELSE acc

\* One turn of the list loop: a list-playlists request, the page appended,
\* then the break or the next offset.  After the break the result is cut
\* to the limit and the detail loop begins.
get_user_playlists_page ==
    /\ spc = "list_page"
    /\ list_requests' =
          IF request_sent
          THEN Append(list_requests, [limit |-> batch_limit, offset |-> offset])
          ELSE list_requests
    /\ api_log' = sent("playlists", 0, offset)
    /\ IF _make_request(StatusFor(0)) # "ok"
       THEN /\ raise_to_caller(_make_request(StatusFor(0)))
            /\ UNCHANGED <<playlists, offset, index>>
       ELSE LET page == PageItems(playlist_total, batch_limit, offset)
                acc == playlists \o [i \in 1..Len(page) |-> Playlist(page[i])]
            IN  IF \/ ~HasNext(playlist_total, batch_limit, offset)
                   \/ (LimitGiven(limit) /\ Len(acc) >= limit[1])
                THEN /\ playlists' = limited(acc)
                     /\ UNCHANGED offset
                     /\ IF limited(acc) = <<>>
                        THEN /\ spc' = "idle" /\ outcome' = "returned"
                             /\ UNCHANGED index
                        ELSE /\ spc' = "details" /\ index' = 1
                             /\ UNCHANGED outcome
                ELSE /\ playlists' = acc
                     /\ offset' = offset + batch_limit
                     /\ UNCHANGED <<spc, outcome, index>>
    /\ UNCHANGED <<authVars, sessionVars, apiVars, op, limit, batch_limit,
                   playlist_id, track_offset, tracks, track_requests>>
    /\ UNCHANGED <<writable, modelVars>>

\* The detail loop goes on to the next playlist, or the operation returns.
next_playlist ==
    IF index = Len(playlists)
    THEN spc' = "idle" /\ outcome' = "returned" /\ UNCHANGED index
    ELSE spc' = "details" /\ index' = index + 1 /\ UNCHANGED outcome

\* A detail loop without its except clause.
propagated(e) ==
    /\ raise_to_caller(e)
    /\ UNCHANGED <<playlists, index>>

\* An exception of get_playlist_details: caught by the detail loop of
\* get_user_playlists, which leaves the playlist without tracks and goes
\* on; raised to the caller of any other operation.
failed(e) ==
    IF op = "get_user_playlists"
    THEN /\ playlists' = [playlists EXCEPT ![index].tracks = <<>>]
         /\ next_playlist
    ELSE /\ raise_to_caller(e)
         /\ UNCHANGED <<playlists, index>>

\* get_playlist_details(playlist_id), called by itself, up to its first
\* request.
get_playlist_details ==
    /\ spc = "idle"
    /\ \E id \in 1..(MaxUnavailable + 1) : playlist_id' = id
    /\ op' = "get_playlist_details"
    /\ limit' = NoLimit /\ batch_limit' = 0
    /\ playlists' = <<>> /\ offset' = 0 /\ index' = 0
    /\ track_offset' = 0 /\ tracks' = <<>>
    /\ list_requests' = <<>> /\ track_requests' = <<>> /\ api_log' = <<>>
    /\ IF not_authenticated
       THEN raise_to_caller("AuthenticationError")
       ELSE spc' = "details" /\ outcome' = "none"
    /\ UNCHANGED <<authVars, sessionVars, apiVars>>
    /\ UNCHANGED <<writable, modelVars>>

\* The playlist get_playlist_details is fetching: the one the detail loop
\* has reached, or the caller's.
detailed_id ==
    IF op = "get_user_playlists" THEN playlists[index].id ELSE playlist_id

\* get_playlist_details: the metadata request; get_playlist_tracks follows.
get_playlist_details_request ==
    /\ spc = "details"
    /\ playlist_id' = detailed_id
    /\ tracks' = <<>> /\ track_offset' = 0 /\ track_requests' = <<>>
    /\ api_log' = sent("playlist", detailed_id, 0)
    /\ IF _make_request(StatusFor(detailed_id)) # "ok"
       THEN failed(_make_request(StatusFor(detailed_id)))
       ELSE /\ spc' = "tracks_page"
            /\ UNCHANGED <<playlists, index, outcome>>
    /\ UNCHANGED <<authVars, sessionVars, apiVars, op, limit, batch_limit,
                   offset, list_requests>>
    /\ UNCHANGED <<writable, modelVars>>

\* get_playlist_tracks(playlist_id), called by itself, up to its first
\* request.
get_playlist_tracks ==
    /\ spc = "idle"
    /\ \E id \in 1..(MaxUnavailable + 1) : playlist_id' = id
    /\ op' = "get_playlist_tracks"
    /\ limit' = NoLimit /\ batch_limit' = 0
    /\ playlists' = <<>> /\ offset' = 0 /\ index' = 0
    /\ track_offset' = 0 /\ tracks' = <<>>
    /\ list_requests' = <<>> /\ track_requests' = <<>> /\ api_log' = <<>>
    /\ IF not_authenticated
       THEN raise_to_caller("AuthenticationError")
       ELSE spc' = "tracks_page" /\ outcome' = "none"
    /\ UNCHANGED <<authVars, sessionVars, apiVars>>
    /\ UNCHANGED <<writable, modelVars>>

\* A loop that takes every page for the last.
next_ignored == FALSE

\* data.get("next") of the track page just fetched.
tracks_next == HasNext(track_total, PageMax, track_offset)

\* A loop that keeps every entry of a page.
every_entry(page) == page

\* The entries of a page that carry a track with an id:
\* `if item["track"] and item["track"]["id"]`.
parsed_tracks(page) ==
    SelectSeq(page, LAMBDA i : ~track_is_null(i) /\ ~track_id_is_null(i))

\* One turn of get_playlist_tracks' loop: a track request of PageMax
\* entries, the tracks of the page appended, then the break or the next
\* offset.  get_playlist_details hands the tracks on in the playlist it
\* parsed from the metadata.
get_playlist_tracks_page ==
    /\ spc = "tracks_page"
    /\ track_requests' =
          IF request_sent THEN Append(track_requests, track_offset)
          ELSE track_requests
    /\ api_log' = sent("tracks", playlist_id, track_offset)
    /\ IF _make_request(StatusFor(playlist_id)) # "ok"
       THEN /\ UNCHANGED <<tracks, track_offset>>
            /\ failed(_make_request(StatusFor(playlist_id)))
       ELSE LET page == PageItems(track_total, PageMax, track_offset)
                acc == tracks \o parsed_tracks(page)
            IN  /\ tracks' = acc
                /\ IF tracks_next
                   THEN /\ track_offset' = track_offset + PageMax
                        /\ UNCHANGED <<playlists, index, spc, outcome>>
                   ELSE /\ UNCHANGED track_offset
                        /\ IF op = "get_user_playlists"
                           THEN /\ playlists' =
                                      [playlists EXCEPT ![index].tracks = acc]
                                /\ next_playlist
                           ELSE /\ spc' = "idle" /\ outcome' = "returned"
                                /\ playlists' =
                                      IF op = "get_playlist_details"
                                      THEN << [Playlist(playlist_id)
                                                 EXCEPT !.tracks = acc] >>
                                      ELSE playlists
                                /\ UNCHANGED index
    /\ UNCHANGED <<authVars, sessionVars, apiVars, op, limit, batch_limit,
                   offset, playlist_id, list_requests>>
    /\ UNCHANGED <<writable, modelVars>>

ServiceNext ==
    \/ get_user_profile
    \/ get_user_playlists
    \/ get_user_playlists_page
    \/ get_playlist_details
    \/ get_playlist_details_request
    \/ get_playlist_tracks
    \/ get_playlist_tracks_page

\* The token file of a run that authenticated before: a token valid at
\* clock 0.
ValidRecord == TokenRecord("T0", "R0", <<TokenBuffer + 2 * TickSecs>>)

\* What is explored on every library: an authenticated service with its
\* profile loaded, a valid token and an API that answers 200.
AllIsWell(t, a, p, st) ==
    t = 0 /\ a /\ p = CurrentUser /\ st = HttpOk

\* The service some time after construction: authenticate() has not been
\* called (and no profile is loaded), or it has succeeded at clock 0 on the
\* stored token, with or without the profile loaded; by now the token may
\* have run into the buffer.  The API answers 200, or api_status from its
\* k-th answer to an operation on.  All that is not well is explored on the
\* small libraries.
ServiceInit ==
    /\ \E t \in {0, MaxTicks * TickSecs}, a \in BOOLEAN,
          p \in {CurrentUser, None}, l \in Libraries,
          u \in SUBSET (1..MaxUnavailable), st \in ApiStatuses,
          k \in 0..MaxHealthy, ra \in RetryAfters :
          /\ ~AllIsWell(t, a, p, st) =>
                 (l.playlist_total <= 2 /\ l.track_total <= 1)
          /\ ~a => p = None
          /\ st = HttpOk => k = 0
          /\ st # HttpTooManyRequests => ra = "seconds"
          /\ IF a THEN AuthenticatorAtRest(ValidRecord, t, 1, "true")
                  ELSE AuthenticatorAtRest(ValidRecord, t, 0, "none")
          /\ _authenticated = a
          /\ _user_profile = p
          /\ playlist_total = l.playlist_total
          /\ track_total = l.track_total
          /\ holes = l.holes
          /\ unavailable = u
          /\ api_status = st
          /\ healthy = k
          /\ retry_after = ra
    /\ config = [client_id |-> "id", client_secret |-> "secret"]
    /\ FetchAtRest
    /\ ModelsAtRest
    /\ writable = TRUE

ServiceSpec == ServiceInit /\ [][ServiceNext]_vars

\* ---------------------------------------------------------- authenticator
Next ==
    \/ Tick
    \/ \E r \in Requests : do_GET(r)
    \/ do_GET_auth_state
    \/ do_GET_callback_received
    \/ SpotifyService_authenticate
    \/ authenticate_returns
    \/ _refresh_token
    \/ start_server
    \/ get_authorization_url
    \/ wait_for_callback
    \/ poll
    \/ check_error
    \/ check_state
    \/ return_auth_code
    \/ exchange_code_for_tokens
    \/ stop_server
    \/ call_get_access_token

Spec == Init /\ [][Next]_vars

\* ---------------------------------------------------------------- progress
\* The steps of the flow take no time worth counting; the one place where
\* the orchestrator sleeps is the poll loop of wait_for_callback, and there
\* the clock runs on until the timeout is over.
TickWhilePolling ==
    /\ pc = "poll"
    /\ now - start_time <= CallbackTimeout
    /\ now' = now + TickSecs
    /\ UNCHANGED <<got, last_call, tokenVars, serverVars, expected_state, handlerVars,
                   pc, start_time, code, ret, historyVars, serviceVars>>
    /\ UNCHANGED <<writable, modelVars>>

LiveNext ==
    \/ \E r \in Requests : do_GET(r)
    \/ do_GET_auth_state
    \/ do_GET_callback_received
    \/ SpotifyService_authenticate
    \/ authenticate_returns
    \/ _refresh_token
    \/ start_server
    \/ get_authorization_url
    \/ wait_for_callback
    \/ poll
    \/ check_error
    \/ check_state
    \/ return_auth_code
    \/ exchange_code_for_tokens
    \/ stop_server
    \/ TickWhilePolling

\* What the scheduling guarantees: the orchestrator thread runs on once
\* authenticate() was called, the listener thread finishes the request it
\* is handling, and time passes.  Nobody has to send a request, and nobody
\* has to call authenticate().
Fairness ==
    /\ WF_vars(TickWhilePolling)
    /\ WF_vars(do_GET_auth_state \/ do_GET_callback_received)
    /\ WF_vars(_refresh_token \/ start_server \/ get_authorization_url
               \/ wait_for_callback \/ poll \/ check_error \/ check_state
               \/ return_auth_code \/ exchange_code_for_tokens
               \/ stop_server \/ authenticate_returns)

\* A first run: TokenManager finds no spotify_tokens.json.
LiveInit == Init /\ token_file = NoFile

LiveSpec == LiveInit /\ [][LiveNext]_vars /\ Fairness

\* ------------------------------------------------- TokenManager by itself
\* The arguments a caller passes to save_tokens.
SavedAccessTokens == {"T1", "T2"}
SavedRefreshTokens == {"R1", "R2"}
SavedExpiresIns == {TokenBuffer, 12 * TickSecs}

\* save_tokens(a, r, e) called on the TokenManager.
call_save_tokens ==
    /\ pc = "idle" /\ spc = "idle"
    /\ \E a \in SavedAccessTokens, r \in SavedRefreshTokens,
          e \in SavedExpiresIns :
          /\ save_tokens(a, r, [expires_in |-> e, expires_in_type |-> "int"])
          /\ last_call' = Call("save_tokens", a, r, e)
    /\ UNCHANGED <<now, serverVars, expected_state, handlerVars, pc,
                   start_time, code, ret, calls, result, posts, starts, urls,
                   stops, exit_path, response, entry_store, entry_valid,
                   flow_store, occupied, got, serviceVars>>
    /\ UNCHANGED <<writable, modelVars>>

\* A clear_tokens that leaves spotify_tokens.json where it is.
file_kept == token_file

\* if self.token_file.exists(): self.token_file.unlink()
unlink == NoFile

\* TokenManager.clear_tokens.
clear_tokens ==
    /\ pc = "idle" /\ spc = "idle"
    /\ access_token' = None
    /\ refresh_token' = None
    /\ expires_at' = NoTime
    /\ token_file' = unlink
    /\ last_call' = Call("clear_tokens", None, None, 0)
    /\ UNCHANGED <<now, serverVars, expected_state, handlerVars, pc,
                   start_time, code, ret, historyVars, got, serviceVars>>
    /\ UNCHANGED <<writable, modelVars>>

\* TokenManager.load_tokens called on the constructed object: the fields of
\* the record when the file exists, no assignment when it does not.
load_tokens_again ==
    /\ pc = "idle" /\ spc = "idle"
    /\ IF token_file = NoFile
       THEN UNCHANGED <<access_token, refresh_token, expires_at>>
       ELSE /\ access_token' = token_file.access_token
            /\ refresh_token' = token_file.refresh_token
            /\ expires_at' = token_file.expires_at
    /\ last_call' = Call("load_tokens", None, None, 0)
    /\ UNCHANGED <<token_file, now, serverVars, expected_state, handlerVars,
                   pc, start_time, code, ret, historyVars, got, serviceVars>>
    /\ UNCHANGED <<writable, modelVars>>

TokenNext ==
    \/ call_save_tokens
    \/ clear_tokens
    \/ load_tokens_again
    \/ Tick

TokenSpec == Init /\ [][TokenNext]_vars

\* ------------------------------------------------ the clock during a fetch
\* Time passes while a request is awaited (the `async with` of
\* _make_request): the clock may step between any two steps of a fetch.
TickWhileFetching ==
    /\ spc \notin {"idle", "authenticate"}
    /\ now < MaxTicks * TickSecs
    /\ now' = now + TickSecs
    /\ UNCHANGED <<got, last_call, tokenVars, serverVars, expected_state,
                   handlerVars, pc, start_time, code, ret, historyVars,
                   serviceVars>>
    /\ UNCHANGED <<writable, modelVars>>

\* An authenticated service with its profile loaded and a token that is
\* still valid, against an API that answers every request, on libraries
\* with one page and with several pages of playlists and of tracks.
ExpiryInit ==
    /\ \E t \in {0, TickSecs}, l \in Libraries :
          /\ l.playlist_total \in {1, 2, MaxPlaylists}
          /\ l.track_total \in {1, MaxTracks}
          /\ l.holes = {}
          /\ AuthenticatorAtRest(ValidRecord, t, 1, "true")
          /\ playlist_total = l.playlist_total
          /\ track_total = l.track_total
          /\ holes = l.holes
          /\ unavailable = {}
    /\ _authenticated = TRUE
    /\ _user_profile = CurrentUser
    /\ api_status = HttpOk /\ healthy = 0 /\ retry_after = "seconds"
    /\ config = [client_id |-> "id", client_secret |-> "secret"]
    /\ FetchAtRest
    /\ ModelsAtRest
    /\ writable = TRUE

ExpiryNext == ServiceNext \/ TickWhileFetching

ExpirySpec == ExpiryInit /\ [][ExpiryNext]_vars

\* ------------------------------------------- a token file that is read-only
\* The authenticator of a run in which spotify_tokens.json cannot be opened
\* for writing.
UnwritableInit ==
    /\ \E file \in StoredRecords \cup {NoFile} :
           AuthenticatorAtRest(file, 0, 0, "none")
    /\ config = [client_id |-> "id", client_secret |-> "secret"]
    /\ ServiceAtRest
    /\ ModelsAtRest
    /\ writable = FALSE

UnwritableSpec == UnwritableInit /\ [][Next]_vars

\* ================================================================== claims
\* The call has returned to its caller.
Returned == pc = "idle" /\ calls > 0
\* The call, if it has returned or is about to, reports failure.
Fails ==
    /\ pc = "idle" => result = "false"
    /\ pc = "stop_server" => ret = "false"
\* wait_for_callback of the current call left its poll loop on a callback.
WaitResolved ==
    \/ pc \in {"check_error", "check_state", "return_auth_code",
               "exchange_code_for_tokens"}
    \/ exit_path \in {"oauth_error", "state_mismatch", "no_code",
                      "exchange_failed", "key_error", "type_error", "success"}
\* The token endpoint was asked to exchange a code in the current call.
Exchanges == { i \in 1..Len(posts) : posts[i] = "authorization_code" }
\* A success is recorded on the listener: a code, by a finished do_GET.
SuccessRecorded ==
    server = "serving" /\ callback_received /\ handler_pc = "idle"
    /\ auth_code # None /\ auth_error = None

\* C1: when the callback that ends the wait (the first to set
\* callback_received) carries a state other than the generated one, with or
\* without a code, authenticate() fails, no code is exchanged, the
\* TokenStore is what it was when the flow began and one listener at most
\* was started.
C1_StateMismatchFails ==
    (WaitResolved /\ resolver.state # expected_state) =>
        /\ Fails
        /\ pc \in {"check_error", "check_state", "stop_server", "idle"}
        /\ Exchanges = {}
        /\ TokenStore = flow_store
        /\ starts = 1

\* C2: first writer wins: once a success is recorded on a listener, no step
\* changes the recorded code, state or error of that listener.
C2_FirstWriterWins ==
    [][(SuccessRecorded /\ server' = "serving") =>
          /\ auth_code' = auth_code
          /\ auth_state' = auth_state
          /\ auth_error' = auth_error]_vars

\* C3: every new flow that has ended, on whichever exit path, has run
\* stop_server() once and holds no port.
C3_StopOnEveryExit ==
    (Returned /\ starts > 0) =>
        /\ exit_path \in {"success", "timeout", "oauth_error",
                          "state_mismatch", "exchange_failed", "key_error",
                          "type_error", "bind_error"}
        /\ stops = 1
        /\ ~port_bound
C3_BindErrorExit ==
    Returned /\ exit_path = "bind_error" /\ server = "closed" /\ stops = 1

\* C4: is_token_valid() is true exactly when access_token is present,
\* expires_at is present and now < expires_at - 300.
C4_ValidIffBeforeBuffer ==
    is_token_valid <=>
        /\ access_token # None
        /\ expires_at # NoTime
        /\ now < expires_at[1] - 300
C4_ValidLater == is_token_valid /\ now > 0 /\ access_token = ServerAccessToken

\* C5: a call entered with a valid token has returned success at once: no
\* token request, no listener, no authorization URL, no stop, and the
\* TokenStore and the listener are what they were.
C5_CachedReturn ==
    (calls > 0 /\ entry_valid) =>
        /\ pc = "idle" /\ result = "true"
        /\ posts = <<>> /\ starts = 0 /\ urls = 0 /\ stops = 0
        /\ TokenStore = entry_store
        /\ ~port_bound
C5_CachedCall ==
    Returned /\ entry_valid /\ result = "true" /\ access_token = "T0"

\* The refresh request of the current call was answered 200 with
\* access_token and a numeric expires_in.
RefreshSucceeded == posts = <<"refresh_token">> /\ response \in WellFormed
RefreshFailed ==
    /\ posts # <<>> /\ posts[1] = "refresh_token"
    /\ Len(posts) = 1 => response \notin WellFormed
\* C7: a failed refresh (another status than 200, or a malformed answer)
\* does not end the call, which goes on to a new flow, and leaves the
\* TokenStore as it was when the call was entered.
C7_FailedRefreshChangesNothing ==
    RefreshFailed =>
        /\ pc = "idle" => starts = 1
        /\ flow_store = entry_store
        /\ pc = "start_server" => TokenStore = entry_store

\* The callback that ended the wait carries an error.
ErrorCallback == WaitResolved /\ resolver.error # None
\* C8 as stated: when the callback that ends the wait carries an error,
\* authenticate() fails, the token endpoint is not called at all during the
\* call, and the flow leaves the TokenStore unchanged.
C8_NoTokenRequestAtAll ==
    ErrorCallback =>
        /\ Fails
        /\ pc \in {"check_error", "stop_server", "idle"}
        /\ posts = <<>>
        /\ TokenStore = flow_store
\* C8 as amended: when the callback that ends the wait carries an error,
\* authenticate() fails, no code is exchanged (a refresh request may have
\* gone before the flow), and the flow leaves the TokenStore unchanged.
C8_ErrorCallbackFails ==
    ErrorCallback =>
        /\ Fails
        /\ pc \in {"check_error", "stop_server", "idle"}
        /\ Exchanges = {}
        /\ TokenStore = flow_store
C8_DeniedAfterRefresh ==
    Returned /\ ErrorCallback /\ exit_path = "oauth_error"
    /\ result = "false" /\ posts = <<"refresh_token">>

\* The call has returned and its code exchange was answered 200 with
\* access_token and a numeric expires_in.
ExchangeAnswered ==
    /\ Returned /\ posts # <<>>
    /\ posts[Len(posts)] = "authorization_code"
    /\ response \in WellFormed
\* C9: when the exchange is answered 200 with access_token and expires_in,
\* with or without refresh_token, authenticate() succeeds and the TokenStore
\* holds the answer's access token, its refresh token if any, and
\* expires_at = now + expires_in.
C9_ExchangeSaves ==
    ExchangeAnswered =>
        /\ result = "true"
        /\ access_token = response.access_token
        /\ response.refresh_token # None =>
               refresh_token = response.refresh_token
        /\ expires_at = <<saved_at + response.expires_in>>
        /\ token_file = TokenRecord(access_token, refresh_token, expires_at)

\* The code exchange of the current call was answered with another status
\* than 200.
ExchangeRejected ==
    /\ posts # <<>> /\ posts[Len(posts)] = "authorization_code"
    /\ response.status # HttpOk
\* C10: when the exchange is answered with another status than 200, the
\* call reports failure, the code was sent once, and the TokenStore, in
\* memory and persisted, is what it was when the flow began.
C10_ExchangeFailureAborts ==
    ExchangeRejected =>
        /\ Fails
        /\ pc \in {"stop_server", "idle"}
        /\ Cardinality(Exchanges) = 1
        /\ starts = 1
        /\ TokenStore = flow_store
C10_RejectedExchange ==
    Returned /\ ExchangeRejected /\ result = "false"
    /\ response.access_token = ServerAccessToken

\* C11: a get_access_token() call returns the stored access token exactly
\* when is_token_valid() is true and nothing otherwise, and changes no
\* state: the TokenStore, the listener and the requests sent to the token
\* endpoint are what they were, also with a refresh token stored.
C11_GetAccessTokenOnlyReads ==
    [][(got' # got /\ got' # NotCalled) =>
          /\ is_token_valid => got' = access_token
          /\ ~is_token_valid => got' = None
          /\ UNCHANGED <<tokenVars, serverVars, expected_state, posts,
                         starts, urls, stops, pc>>]_vars
C11_NothingReturnedDespiteRefreshToken ==
    got = None /\ has_refresh_token /\ access_token # None
    /\ posts = <<>> /\ server = "none"

C13_OnlyResultResolves ==
    callback_received => (resolver.code # None \/ resolver.error # None)

\* C14: auth_code and auth_error are never both set on the same listener.
C14_CodeOrErrorNotBoth == ~(auth_code # None /\ auth_error # None)

C16_PortReusable ==
    /\ (starts > 0 /\ ~occupied) => exit_path # "bind_error"
    /\ (pc = "get_authorization_url" /\ requests = 0) =>
           /\ server = "serving"
           /\ auth_code = None /\ auth_error = None /\ auth_state = None
           /\ ~callback_received
C16_SecondListener ==
    calls = MaxCalls /\ pc = "get_authorization_url" /\ requests = 0
    /\ expected_state = GeneratedState(1) /\ server = "serving"

\* C17: when another process holds the port, start_server() fails and no
\* listener serves; the flow reports failure with no authorization URL
\* opened, no wait, no code exchanged and the TokenStore as it was.
C17_BindErrorAborts ==
    (starts > 0 /\ occupied) =>
        /\ exit_path = "bind_error"
        /\ pc \in {"stop_server", "idle"}
        /\ Fails
        /\ ~port_bound
        /\ urls = 0
        /\ Exchanges = {}
        /\ TokenStore = flow_store
C17_PortTaken ==
    Returned /\ occupied /\ result = "false" /\ server = "none"
    /\ posts = <<"refresh_token">>

\* ceil(n / d) for n >= 0 and d > 0.
CeilDiv(n, d) == (n + d - 1) \div d
\* get_playlist_tracks, called by itself on a playlist whose entries all
\* carry a track, has returned.
TracksReturned ==
    op = "get_playlist_tracks" /\ outcome = "returned" /\ holes = {}
\* The requests were sent at offsets 0, PageMax, 2 * PageMax, ... and all
\* entries came back in the server's order.
TracksInOrder ==
    /\ \A k \in 1..Len(track_requests) :
           track_requests[k] = (k - 1) * PageMax
    /\ tracks = [i \in 1..track_total |-> i]
\* C18 as stated: for every N >= 0, get_playlist_tracks sends exactly
\* ceil(N / 50) requests, at offsets 0, 50, 100, ..., and returns the N
\* entries in order.
C18_CeilRequests ==
    TracksReturned =>
        /\ Len(track_requests) = CeilDiv(track_total, PageMax)
        /\ TracksInOrder
\* C18 as amended: for N >= 1 get_playlist_tracks sends exactly
\* ceil(N / 50) requests, for N = 0 exactly one, at offsets 0, 50, 100,
\* ..., and returns the N entries in order.
C18_CeilRequestsOrOne ==
    TracksReturned =>
        /\ Len(track_requests) =
              IF track_total = 0 THEN 1 ELSE CeilDiv(track_total, PageMax)
        /\ TracksInOrder
C18_ThreePages ==
    TracksReturned /\ track_total = MaxTracks
    /\ track_requests = <<0, PageMax, 2 * PageMax>>
    /\ Len(tracks) = MaxTracks

\* The list loop of get_user_playlists(limit = L), L >= 1, is over.
ListDone ==
    /\ op = "get_user_playlists" /\ LimitGiven(limit)
    /\ \/ spc \in {"details", "tracks_page"}
       \/ spc = "idle" /\ outcome = "returned"
\* After the j-th list request the server reported a further page and
\* fewer than L playlists had been accumulated.
MustGoOn(j) ==
    /\ HasNext(playlist_total, list_requests[j].limit, list_requests[j].offset)
    /\ Min(playlist_total, list_requests[j].offset + list_requests[j].limit)
          < limit[1]
\* C19: get_user_playlists(limit = L), L >= 1, sends a further list
\* request only while the server reports a next page and fewer than L
\* playlists are accumulated, and its result is the first min(L, total)
\* playlists in server order.
C19_StopsAtLimit ==
    ListDone =>
        /\ list_requests # <<>>
        /\ \A j \in 1..(Len(list_requests) - 1) : MustGoOn(j)
        /\ ~MustGoOn(Len(list_requests))
        /\ Len(playlists) = Min(limit[1], playlist_total)
        /\ \A i \in 1..Len(playlists) : playlists[i].id = i
C19_LimitReachedOnSecondPage ==
    ListDone /\ outcome = "returned" /\ Len(list_requests) = 2
    /\ limit = <<PageMax + 1>> /\ playlist_total = MaxPlaylists
    /\ Len(playlists) = PageMax + 1

\* C20: every list-playlists request asks for min(50, L - accumulated)
\* playlists when a limit L >= 1 is given, and for 50 when none is.
C20_PageSizeIsRemaining ==
    op = "get_user_playlists" =>
        \A j \in 1..Len(list_requests) :
            list_requests[j].limit =
                IF LimitGiven(limit)
                THEN Min(PageMax, limit[1] - list_requests[j].offset)
                ELSE PageMax

\* The entries of the playlist that carry a track with an id, in the
\* server's order.
TrackedEntries ==
    SelectSeq([i \in 1..track_total |-> i], LAMBDA i : i \notin holes)
\* C21: get_playlist_tracks leaves out the entries whose track is null or
\* whose track id is null and keeps every other entry in order; the
\* skipped entries do not touch the paging: every request is sent one full
\* page after the one before, and the loop ends only on the page without
\* `next`, so the requests are as many as the pages of all entries.
C21_NullEntriesSkipped ==
    /\ spc = "tracks_page" => track_offset = Len(track_requests) * PageMax
    /\ (op = "get_playlist_tracks" /\ outcome = "returned") =>
        /\ tracks = TrackedEntries
        /\ \A k \in 1..Len(track_requests) :
               track_requests[k] = (k - 1) * PageMax
        /\ Len(track_requests) =
              IF track_total = 0 THEN 1 ELSE CeilDiv(track_total, PageMax)
C21_BothKindsSkipped ==
    op = "get_playlist_tracks" /\ outcome = "returned"
    /\ track_total = MaxTracks
    /\ \E i \in holes : track_is_null(i)
    /\ \E j \in holes : track_id_is_null(j)
    /\ Len(tracks) = MaxTracks - Cardinality(holes)
    /\ track_requests = <<0, PageMax, 2 * PageMax>>

\* get_user_playlists has returned its list.
PlaylistsReturned == op = "get_user_playlists" /\ outcome = "returned"
\* The playlists the list loop hands to the detail loop: the first `limit`
\* of the library, or all of it.
Listed ==
    IF LimitGiven(limit) THEN Min(limit[1], playlist_total) ELSE playlist_total
\* The API refused a metadata or track request of the operation about
\* playlist id.
FetchFailed(id) ==
    \E k \in 1..Len(api_log) :
        /\ api_log[k][1] \in {"playlist", "tracks"}
        /\ api_log[k][2] = id
        /\ api_log[k][4] >= HttpBadRequest
\* C22: whichever detail or track fetches fail, get_user_playlists returns
\* every listed playlist in the server's order, a failed one with no
\* tracks and every other one with all its tracks; the detail loop goes on
\* after a failure (every listed playlist was asked for), and no exception
\* of a detail or track fetch reaches the caller.
C22_PartialFailureDegrades ==
    /\ PlaylistsReturned =>
        /\ Len(playlists) = Listed
        /\ \A i \in 1..Len(playlists) :
            /\ playlists[i].id = i
            /\ playlists[i].tracks =
                  IF FetchFailed(i) THEN <<>> ELSE TrackedEntries
            /\ \E k \in 1..Len(api_log) :
                  api_log[k][1] = "playlist" /\ api_log[k][2] = i
    /\ (op = "get_user_playlists" /\ outcome \notin {"none", "returned"}) =>
        \A k \in 1..Len(api_log) : api_log[k][1] = "playlists"
C22_FirstOfManyFailed ==
    PlaylistsReturned /\ Len(playlists) = MaxPlaylists
    /\ FetchFailed(1) /\ playlists[1].tracks = <<>>
    /\ \A i \in 2..MaxPlaylists :
           ~FetchFailed(i) /\ playlists[i].tracks = <<1>>

\* The operation is one of the data fetches.
DataFetch ==
    op \in {"get_user_profile", "get_user_playlists", "get_playlist_details",
            "get_playlist_tracks"}
\* C23: once a request of a data fetch was answered 401, whether a list
\* page or a metadata or track request inside get_user_playlists, the
\* fetch has ended with the authentication error at its caller and that
\* request was its last.
C23_UnauthorizedAborts ==
    DataFetch =>
        \A k \in 1..Len(api_log) :
            api_log[k][4] = HttpUnauthorized =>
                /\ k = Len(api_log)
                /\ spc = "idle"
                /\ outcome = "AuthenticationError"

\* The outcome the status of an answer stands for: the exception, or "ok".
OutcomeOf(status) ==
    IF status = 429 THEN "RateLimitError"
    ELSE IF status = 401 THEN "AuthenticationError"
    ELSE IF status >= 400 THEN "MusicServiceError"
    ELSE "ok"
\* An operation whose caller sees every exception of _make_request has
\* ended after a request.
EndedOnAnswer ==
    /\ op \in {"get_user_profile", "get_playlist_details",
               "get_playlist_tracks"}
    /\ spc = "idle" /\ api_log # <<>>
\* C24: _make_request turns a 429 into the rate-limit error, a 401 into the
\* authentication error, any other status from 400 on into the generic API
\* error and returns the body for every status below 400; and the service
\* sends no request again that was answered 429.
C24_StatusMapsToOneOutcome ==
    /\ EndedOnAnswer =>
          outcome = IF OutcomeOf(api_log[Len(api_log)][4]) = "ok"
                    THEN "returned"
                    ELSE OutcomeOf(api_log[Len(api_log)][4])
    /\ \A j, k \in 1..Len(api_log) :
          (j < k /\ api_log[j][4] = 429) =>
              <<api_log[j][1], api_log[j][2], api_log[j][3]>> #
              <<api_log[k][1], api_log[k][2], api_log[k][3]>>

\* The class the owner and the `collaborative` field of a playlist stand
\* for, for the user the tokens belong to.
ClassOf(owner, collaborative) ==
    IF owner # CurrentUser THEN "FOLLOWED"
    ELSE IF collaborative = "true" THEN "COLLABORATIVE"
    ELSE "OWNED"
\* C25: with the current user's profile loaded, every playlist the service
\* has parsed is COLLABORATIVE when the current user owns it and its
\* collaborative field is true, OWNED when the current user owns it and the
\* field is false or absent, and FOLLOWED when another user owns it,
\* whatever the field.
C25_ClassifiedByOwnerAndFlag ==
    _user_profile # None =>
        \A i \in 1..Len(playlists) :
            playlists[i].playlist_type =
                ClassOf(OwnerId(playlists[i].id),
                        CollaborativeField(playlists[i].id))
C25_EveryCase ==
    /\ PlaylistsReturned /\ _user_profile = CurrentUser
    /\ \A o \in {CurrentUser, OtherUser}, c \in {"true", "false", "absent"} :
          \E i \in 1..Len(playlists) :
              /\ OwnerId(playlists[i].id) = o
              /\ CollaborativeField(playlists[i].id) = c
    /\ \A t \in {"OWNED", "COLLABORATIVE", "FOLLOWED"} :
          \E i \in 1..Len(playlists) : playlists[i].playlist_type = t

\* C26: every playlist that get_user_playlists or get_playlist_details
\* returns after fetching all its pages without a failure has track_count
\* equal to the number of its tracks, whatever entries the pages hold.
C26_TrackCountIsLength ==
    (op \in {"get_user_playlists", "get_playlist_details"}
     /\ outcome = "returned") =>
        \A i \in 1..Len(playlists) :
            ~FetchFailed(playlists[i].id) =>
                playlists[i].track_count = Len(playlists[i].tracks)

\* ------------------------------------------------------------ whole session
\* The service from its construction on, at the side of the authenticator
\* it drives: a first run without a token file or a run that finds a valid
\* token, against an API with an empty library.
SessionInit ==
    /\ \E file \in {NoFile, ValidRecord} :
           AuthenticatorAtRest(file, 0, 0, "none")
    /\ config \in Configs
    /\ ServiceAtRest
    /\ ModelsAtRest
    /\ writable = TRUE

SessionNext == LiveNext \/ ServiceNext

SessionSpec == SessionInit /\ [][SessionNext]_vars

\* C27: while no authenticate() has succeeded the service reports
\* is_authenticated false, and get_user_profile, get_user_playlists,
\* get_playlist_details and get_playlist_tracks each end at once with an
\* error and without a request; the flag is set by no step but the return
\* of an authenticate() whose authenticator reported success.
C27_NothingBeforeAuthenticate ==
    /\ [](~_authenticated => ~is_authenticated)
    /\ []((DataFetch /\ ~_authenticated) =>
            /\ spc = "idle"
            /\ outcome = "AuthenticationError"
            /\ api_log = <<>>)
    /\ [][(_authenticated' /\ ~_authenticated) =>
            /\ op = "authenticate" /\ spc = "authenticate"
            /\ pc = "idle" /\ result = "true"
            /\ outcome' = "true"]_vars
C27_RefusedAfterFailedAuthenticate ==
    ~_authenticated /\ calls = 1 /\ result = "false"
    /\ op = "get_user_playlists" /\ outcome = "AuthenticationError"
    /\ limit = NoLimit /\ api_log = <<>>

\* C28: with client_id or client_secret absent is_configured() is false
\* and SpotifyService.authenticate() returns false before the
\* authenticator runs: no authenticator call is made, nothing is posted to
\* the token endpoint, no listener is started, the token store is left as
\* it was and the authenticated flag stays false, whatever is stored.
C28_UnconfiguredFailsFirst ==
    (config.client_id = None \/ config.client_secret = None) =>
        /\ ~is_configured
        /\ op = "authenticate" => (spc = "idle" /\ outcome = "false")
        /\ calls = 0 /\ pc = "idle" /\ result = "none"
        /\ posts = <<>> /\ response = NoResponse
        /\ starts = 0 /\ urls = 0 /\ server = "none"
        /\ TokenStore = entry_store
        /\ ~_authenticated /\ _user_profile = None
C28_RefusedWithTokenStored ==
    /\ config.client_id = None /\ config.client_secret = "secret"
    /\ op = "authenticate" /\ outcome = "false"
    /\ is_token_valid /\ has_refresh_token

\* C29: save_tokens(a, r, E) called at time t leaves access_token = a,
\* refresh_token = r and expires_at = t + E both in memory and in the
\* persisted record; after saving access token T2 with a lifetime of 3600
\* seconds is_token_valid() is true at once.
C29_SaveStoresArguments ==
    last_call.op = "save_tokens" =>
        /\ access_token = last_call.access_token
        /\ refresh_token = last_call.refresh_token
        /\ expires_at = <<last_call.at + last_call.expires_in>>
        /\ token_file = TokenRecord(access_token, refresh_token, expires_at)
        /\ (/\ now = last_call.at
            /\ last_call.access_token = "T2"
            /\ last_call.expires_in = 12 * TickSecs) => is_token_valid
C29_SavedT2LaterOn ==
    /\ last_call.op = "save_tokens" /\ last_call.before = "save_tokens"
    /\ last_call.at > 0 /\ now = last_call.at
    /\ access_token = "T2" /\ refresh_token = "R2"
    /\ expires_at = <<now + 12 * TickSecs>>
    /\ token_file # NoFile /\ token_file.access_token = "T2"
    /\ is_token_valid

\* C30: after clear_tokens(), whatever was stored, access_token,
\* refresh_token and expires_at are absent, the persisted record does not
\* exist, is_token_valid() and has_refresh_token() are false, and a
\* load_tokens() that follows leaves every field absent; a clear_tokens()
\* called on the cleared store completes and changes nothing.
C30_ClearRemovesEverything ==
    /\ [](last_call.op = "clear_tokens" =>
            /\ access_token = None /\ refresh_token = None
            /\ expires_at = NoTime
            /\ token_file = NoFile
            /\ ~is_token_valid /\ ~has_refresh_token
            /\ ENABLED clear_tokens)
    /\ []((last_call.op = "load_tokens" /\ last_call.before = "clear_tokens") =>
            /\ access_token = None /\ refresh_token = None
            /\ expires_at = NoTime
            /\ token_file = NoFile)
    /\ [][(last_call.op = "clear_tokens" /\ last_call'.op = "clear_tokens") =>
            UNCHANGED tokenVars]_vars
C30_ClearedTwiceAfterSave ==
    /\ saved_at > 0
    /\ last_call.op = "clear_tokens" /\ last_call.before = "clear_tokens"
    /\ last_call.at > saved_at
    /\ access_token = None /\ refresh_token = None /\ expires_at = NoTime
    /\ token_file = NoFile

\* The durations of the first n tracks, added up from the last one.
RECURSIVE DurationOfFirst(_, _)
DurationOfFirst(tracks_, n) ==
    IF n = 0 THEN 0
    ELSE DurationOfFirst(tracks_, n - 1) + tracks_[n].duration_ms
\* C31: total_duration_ms read from a playlist is the sum of duration_ms
\* over the tracks the playlist holds at that moment, 0 when it holds none,
\* also after the tracks were replaced.
C31_DurationIsSumOfTracks ==
    model_op = "total_duration_ms" =>
        /\ duration_read =
               <<DurationOfFirst(playlist.tracks, Len(playlist.tracks))>>
        /\ playlist.tracks = <<>> => duration_read = <<0>>
C31_ReadAfterReplacement ==
    /\ model_op = "total_duration_ms"
    /\ Len(playlist.tracks) = 3
    /\ playlist.tracks[1].duration_ms = playlist.tracks[3].duration_ms
    /\ duration_read = <<600000>>
    /\ artists_read = << <<>> >>

\* C32: unique_artists read from a playlist holds the artist names that
\* occur on its tracks, each exactly once, in ascending order, whatever their
\* order and repetition on the tracks.
C32_ArtistsDistinctAndSorted ==
    model_op = "unique_artists" =>
        LET names == artists_read[1] IN
        /\ \A i, j \in 1..Len(names) : i < j => str_lt(names[i], names[j])
        /\ \A n \in ArtistNames :
               (\E i \in 1..Len(names) : names[i] = n) <=>
               (\E k \in 1..Len(playlist.tracks) :
                    \E j \in 1..Len(playlist.tracks[k].artists) :
                        playlist.tracks[k].artists[j] = n)
        /\ \A i \in 1..Len(names) : names[i] \in ArtistNames
C32_RepeatedOutOfOrder ==
    /\ model_op = "unique_artists"
    /\ Len(playlist.tracks) = 3
    /\ playlist.tracks[1].artists = << <<97>>, <<65, 98>>, <<97>> >>
    /\ playlist.tracks[2].artists = << <<66>>, <<65>> >>
    /\ playlist.tracks[3].artists = << <<65>> >>
    /\ artists_read = << << <<65>>, <<65, 98>>, <<66>>, <<97>> >> >>

\* C33: under every interleaving of the listener with wait_for_callback,
\* the authorization code that wait_for_callback returns and that is sent to
\* the token endpoint arrived in a request whose state equals the expected
\* state; the code of a request with a wrong or missing state is never
\* exchanged.
C33_ExchangedCodeCameWithState ==
    [][(posts' = Append(posts, "authorization_code")) =>
          \E r \in Requests :
              r.code = code /\ r.state = expected_state]_vars

\* C34: in a new flow the authorization URL is opened only while the
\* callback listener started by this flow is listening, so the redirect
\* that answers the URL never meets a listener that was not started; and
\* wait_for_callback begins only after the URL was handed out.
C34_ListenerBeforeUrlBeforeWait ==
    /\ [][urls' > urls =>
            /\ server = "serving" /\ server' = "serving"
            /\ starts = urls + 1
            /\ pc' = "wait_for_callback"]_vars
    /\ [](pc \in {"wait_for_callback", "poll"} =>
            urls = starts /\ urls > 0)
    /\ []((handler_pc # "idle" /\ request.code = "c1") =>
            starts > 0 /\ urls > 0 /\ server = "serving")
C34_WaitingInSecondFlow ==
    /\ calls = 2 /\ pc = "poll"
    /\ starts = 1 /\ urls = 1 /\ stops = 0
    /\ server = "serving"
    /\ handler_pc # "idle" /\ request.code = "c1"

\* C35: when SpotifyAuthenticator.authenticate() has just returned success,
\* through the cache, the refresh or the new flow and whatever expires_in
\* the token endpoint answered, is_token_valid() is true and
\* get_access_token() returns the stored token.
C35_SuccessMeansUsableToken ==
    (spc = "authenticate" /\ pc = "idle" /\ result = "true") =>
        /\ is_token_valid
        /\ get_access_token = access_token /\ get_access_token # None

\* The listener is handling the redirect that answers the authorization URL
\* while the orchestrator still waits.
RedirectReachedListener ==
    /\ handler_pc = "auth_state" /\ request.code = "c1"
    /\ request.state = expected_state
    /\ pc \in {"wait_for_callback", "poll"} /\ exit_path = "none"
\* The code was sent to the token endpoint and the answer was not a
\* success with tokens.
ExchangeRefused ==
    /\ posts # <<>> /\ posts[Len(posts)] = "authorization_code"
    /\ response \notin WellFormed
\* C36: once the redirect with a code and the expected state has reached
\* the listener before the timeout, authenticate() eventually returns
\* success with the tokens saved, unless the token endpoint refuses the
\* exchange or the timeout strikes while the redirect is being handled,
\* whatever other requests the listener receives.
C36_RedirectLeadsToSuccess ==
    RedirectReachedListener ~>
        \/ /\ pc = "idle" /\ result = "true"
           /\ token_file # NoFile /\ token_file.access_token = access_token
        \/ ExchangeRefused
        \/ exit_path = "timeout"

\* A step of the running fetch (not of the clock).
FetchStep == spc \notin {"idle", "authenticate"} /\ now' = now
\* C37: a request is sent only while is_token_valid() is true and with the
\* stored access token; when the token has entered the buffer in the middle
\* of a fetch, the next step of the fetch sends nothing and ends the fetch
\* with an authentication error, and no refresh is attempted.
C37_ExpiryAbortsFetch ==
    /\ [][Len(api_log') > Len(api_log) =>
            /\ is_token_valid
            /\ get_access_token = access_token /\ Truthy(access_token)]_vars
    /\ [][(FetchStep /\ ~is_token_valid) =>
            /\ api_log' = api_log
            /\ spc' = "idle" /\ outcome' = "AuthenticationError"]_vars
    /\ [][FetchStep => (posts' = posts /\ UNCHANGED tokenVars)]_vars

\* C38: in an authenticated service every parsed playlist whose owner is
\* the authenticated user is OWNED or COLLABORATIVE and never FOLLOWED,
\* also when the profile request at the end of authenticate() failed and no
\* profile is loaded.
C38_OwnNeverFollowed ==
    _authenticated =>
        \A i \in 1..Len(playlists) :
            OwnerId(playlists[i].id) = CurrentUser =>
                playlists[i].playlist_type \in {"OWNED", "COLLABORATIVE"}

\* C39: for every limit L >= 0 that the caller passes, L = 0 included,
\* get_user_playlists(limit=L) returns at most L playlists.
C39_AtMostLimit ==
    (op = "get_user_playlists" /\ outcome = "returned" /\ limit # NoLimit) =>
        Len(playlists) <= limit[1]

\* The fields in memory are those of the persisted record.
MemoryAgreesWithRecord ==
    IF token_file = NoFile
    THEN access_token = None /\ refresh_token = None /\ expires_at = NoTime
    ELSE /\ access_token = token_file.access_token
         /\ refresh_token = token_file.refresh_token
         /\ expires_at = token_file.expires_at
\* The call returned failure after a save_tokens that had assigned all three
\* fields: its write failed.
ReturnedAfterFailedWrite ==
    /\ pc = "idle" /\ calls > 0 /\ result = "false"
    /\ expires_at # entry_store.expires_at
\* C40: the fields in memory and the persisted record agree after a
\* save_tokens whose write fails, the fields being left as they were
\* before the call; and an authenticate() that reports failure leaves no
\* new token for get_access_token() to return.
C40_FailedWriteChangesNothing ==
    /\ ReturnedAfterFailedWrite =>
           MemoryAgreesWithRecord /\ TokenStore = entry_store
    /\ (pc = "idle" /\ calls > 0 /\ result = "false") =>
           get_access_token \in {None, entry_store.access_token}

====
